---- MODULE Spec2Model ----
(***************************************************************************)
(* Model of the EKF2 external-vision yaw fusion supervisor,                *)
(* src/modules/ekf2/EKF/ev_yaw_control.cpp (Ekf::controlEvYawFusion and    *)
(* Ekf::stopEvYawFusion).                                                  *)
(*                                                                         *)
(* Representation.  Angles are integers in units of pi/PiUnits; the        *)
(* orientation of a sample or of the state is represented by its heading   *)
(* angle.  Variances are integers in units of sq(0.01f).  Times are in     *)
(* microseconds.  A non-finite float is the value NaN.                     *)
(***************************************************************************)
EXTENDS Integers, Sequences, FiniteSets, TLC

\* ---------------------------------------------------------------- bounds
\* angle resolution: pi is PiUnits units
PiUnits == 2
\* time between two estimator updates, and time of the first one
TickUs == 500000
StartUs == 1500000
\* age of a sample when it is consumed
SampleLagUs == 1000
\* number of estimator updates explored
MaxTicks == 3
MaxTicksLong == 14

\* ------------------------------------------------------------- constants
NaN == 99
LOCAL_FRAME_NED == "LOCAL_FRAME_NED"
LOCAL_FRAME_FRD == "LOCAL_FRAME_FRD"
\* any other value of the uint8_t frame tag
LOCAL_FRAME_OTHER == "LOCAL_FRAME_OTHER"
\* (uint32_t)1e6, line 71
CooldownUs == 1000000
\* sq(0.01f), line 49, in units of sq(0.01f)
MinVar == 1
\* line 172
NbResets == 5

PositionFrame == {LOCAL_FRAME_NED, LOCAL_FRAME_FRD, LOCAL_FRAME_OTHER}
\* values of the parameters and of the sample fields that are explored
NoAidTimeouts == {TickUs, 3 * TickUs}
EvAttNoises == {1}
SampleYaws == {1, NaN}
SampleVars == {2}

VARIABLES control_status, params, inhibit_ev_yaw_use, nb_ev_yaw_reset_available,
          aid_src_ev_yaw, yaw, yaw_pred_prev, ev_sample_prev, imu_time_us,
          last_set, track, cyc, pc

vars == <<control_status, params, inhibit_ev_yaw_use, nb_ev_yaw_reset_available,
          aid_src_ev_yaw, yaw, yaw_pred_prev, ev_sample_prev, imu_time_us,
          last_set, track, cyc, pc>>

\* ------------------------------------------------------ helper functions
PX4_ISFINITE(x) == x # NaN

\* float subtraction: a non-finite operand gives a non-finite result
fsub(a, b) == IF a = NaN \/ b = NaN THEN NaN ELSE a - b

\* wrap an angle into the canonical range (-pi, pi]
wrap_pi(x) ==
    IF x = NaN THEN NaN
    ELSE LET m == (x + PiUnits - 1) % (2 * PiUnits) IN m - PiUnits + 1

\* math::max(a, b) == (a > b) ? a : b; a comparison with NaN is false
fmax2(a, b) == IF a # NaN /\ b # NaN /\ a > b THEN a ELSE b
fmax3(a, b, c) == fmax2(fmax2(a, b), c)

\* clears a status record; time_last_fuse is preserved
resetEstimatorAidStatus(status) ==
    [timestamp_sample |-> 0, observation |-> 0, observation_variance |-> 0,
     innovation |-> 0, innovation_rejected |-> FALSE, fusion_enabled |-> FALSE,
     fused |-> FALSE, time_last_fuse |-> status.time_last_fuse]

isTimedOut(last_sensor_timestamp, timeout_period) ==
    last_sensor_timestamp + timeout_period < imu_time_us

Call(op, a, v) == <<op, a, v>>

\* ------------------------------------------------ external collaborators
\* s is the mutable part of the estimator during one cycle:
\*   cs (control status flags), nb (reset budget), aid (status record),
\*   yaw (heading of the state), calls (operations invoked, in order),
\*   events (diagnostics emitted, in order), set_at (time of the last write
\*   of aid.time_last_fuse by a fuse, reset or activation)
fuseYaw(s, innovation, variance, ok) ==
    LET c == Append(s.calls, Call("fuseYaw", innovation, variance)) IN
    IF ok
    THEN [s EXCEPT !.calls = c, !.yaw = wrap_pi(fsub(s.yaw, innovation)),
                   !.aid.fused = TRUE, !.aid.time_last_fuse = imu_time_us,
                   !.set_at = imu_time_us]
    ELSE [s EXCEPT !.calls = c, !.aid.innovation_rejected = TRUE]

resetQuatStateYaw(s, angle, variance) ==
    [s EXCEPT !.calls = Append(s.calls, Call("resetQuatStateYaw", angle, variance)),
              !.yaw = angle]

stopMagFusion(s) ==
    [s EXCEPT !.calls = Append(s.calls, Call("stopMagFusion", 0, 0)),
              !.cs.mag_hdg = FALSE]

stopGpsYawFusion(s) ==
    [s EXCEPT !.calls = Append(s.calls, Call("stopGpsYawFusion", 0, 0)),
              !.cs.gps_yaw = FALSE]

stopGpsFusion(s) ==
    [s EXCEPT !.calls = Append(s.calls, Call("stopGpsFusion", 0, 0)),
              !.cs.gps = FALSE]

Log(s, msg) == [s EXCEPT !.events = Append(s.events, msg)]

\* --------------------------------------------------- Ekf::stopEvYawFusion
\* mutant of stopEvYawFusion: the whole status record is zeroed
stopEvYawFusion_ZeroStatus(s) ==
    LET t == [s EXCEPT !.calls = Append(s.calls, Call("stopEvYawFusion", 0, 0))] IN
    IF t.cs.ev_yaw
    THEN [t EXCEPT !.aid = [resetEstimatorAidStatus(t.aid) EXCEPT !.time_last_fuse = 0],
                   !.cs.ev_yaw = FALSE]
    ELSE t

stopEvYawFusion(s) ==
    LET t == [s EXCEPT !.calls = Append(s.calls, Call("stopEvYawFusion", 0, 0))] IN
    IF t.cs.ev_yaw
    THEN [t EXCEPT !.aid = resetEstimatorAidStatus(t.aid), !.cs.ev_yaw = FALSE]
    ELSE t

\* ------------------------------------------------ Ekf::controlEvYawFusion
\* in is the argument list of one call:
\*   ev_sample (time_us, quat as heading angle, orientation_var(2), pos_frame),
\*   starting_conditions_passing, ev_reset, quality_sufficient;
\* ok is the outcome of the fusion engine, should it be called.

\* mutant of ObservationBuilder: the variance is not floored by sq(0.01f)
ObservationBuilder_NoFloor(s, in) ==
    LET cleared == resetEstimatorAidStatus(s.aid) IN
    [s EXCEPT !.aid =
        [cleared EXCEPT
            !.timestamp_sample = in.ev_sample.time_us,
            !.observation = in.ev_sample.quat,
            !.observation_variance =
                fmax2(in.ev_sample.orientation_var, params.ev_att_noise),
            !.innovation = wrap_pi(fsub(s.yaw, in.ev_sample.quat))]]

\* lines 46-50: fill the status record from the sample
ObservationBuilder(s, in) ==
    LET cleared == resetEstimatorAidStatus(s.aid) IN
    [s EXCEPT !.aid =
        [cleared EXCEPT
            !.timestamp_sample = in.ev_sample.time_us,
            !.observation = in.ev_sample.quat,
            !.observation_variance =
                fmax3(in.ev_sample.orientation_var, params.ev_att_noise, MinVar),
            !.innovation = wrap_pi(fsub(s.yaw, in.ev_sample.quat))]]

\* lines 60-62: GPS fusing with an aligned yaw and the sample not NED
ExclusivityVeto(s, in) ==
    /\ s.cs.gps
    /\ s.cs.yaw_align
    /\ in.ev_sample.pos_frame # LOCAL_FRAME_NED

\* mutant of continuing_conditions_passing: no exclusivity veto
continuing_conditions_passing_NoVeto(s, in) ==
    /\ params.ev_ctrl_yaw
    /\ s.cs.tilt_align
    /\ ~inhibit_ev_yaw_use
    /\ PX4_ISFINITE(s.aid.observation)
    /\ PX4_ISFINITE(s.aid.observation_variance)

\* lines 53-63
continuing_conditions_passing(s, in) ==
    /\ params.ev_ctrl_yaw
    /\ s.cs.tilt_align
    /\ ~inhibit_ev_yaw_use
    /\ PX4_ISFINITE(s.aid.observation)
    /\ PX4_ISFINITE(s.aid.observation_variance)
    /\ ~ExclusivityVeto(s, in)

\* mutant of DeltaInnovation: the difference of the two deltas is not wrapped
DeltaInnovation_NoOuterWrap(s, in) ==
    fsub(wrap_pi(fsub(s.yaw, yaw_pred_prev)),
         wrap_pi(fsub(in.ev_sample.quat, ev_sample_prev.quat)))

\* lines 66-67: delta yaw innovation, for logging
DeltaInnovation(s, in) ==
    wrap_pi(fsub(wrap_pi(fsub(s.yaw, yaw_pred_prev)),
                 wrap_pi(fsub(in.ev_sample.quat, ev_sample_prev.quat))))

\* mutant of starting_conditions_passing: no cooldown since the last fuse
starting_conditions_passing_NoCooldown(s, in) ==
    /\ in.starting_conditions_passing
    /\ continuing_conditions_passing(s, in)

\* lines 70-71
starting_conditions_passing(s, in) ==
    /\ in.starting_conditions_passing
    /\ continuing_conditions_passing(s, in)
    /\ isTimedOut(s.aid.time_last_fuse, CooldownUs)

\* lines 52-71: both gates, and the innovation of the veto path
ConditionEvaluator(s, in) ==
    [s EXCEPT !.cont = continuing_conditions_passing(s, in),
              !.start = starting_conditions_passing(s, in),
              !.aid.innovation =
                  IF ExclusivityVeto(s, in) THEN DeltaInnovation(s, in) ELSE @]

\* mutant of ResetOrFuse: the stop of line 89 is not followed by a return
ResetOrFuse_NoReturn(s, in, ok) ==
    IF in.ev_reset
    THEN IF in.quality_sufficient
         THEN LET r == resetQuatStateYaw(Log(s, "reset to EV yaw"),
                                         s.aid.observation, s.aid.observation_variance)
              IN [r EXCEPT !.aid.time_last_fuse = imu_time_us, !.set_at = imu_time_us]
         ELSE stopEvYawFusion(s)
    ELSE IF in.quality_sufficient
         THEN fuseYaw(s, s.aid.innovation, s.aid.observation_variance, ok)
         ELSE [s EXCEPT !.aid.innovation_rejected = TRUE]

\* mutant of ResetOrFuse: the observation is fused in place of the innovation
ResetOrFuse_FuseObservation(s, in, ok) ==
    IF in.ev_reset
    THEN IF in.quality_sufficient
         THEN LET r == resetQuatStateYaw(Log(s, "reset to EV yaw"),
                                         s.aid.observation, s.aid.observation_variance)
              IN [r EXCEPT !.aid.time_last_fuse = imu_time_us, !.set_at = imu_time_us]
         ELSE [stopEvYawFusion(s) EXCEPT !.returned = TRUE]
    ELSE IF in.quality_sufficient
         THEN fuseYaw(s, s.aid.observation, s.aid.observation_variance, ok)
         ELSE [s EXCEPT !.aid.innovation_rejected = TRUE]

\* lines 78-98: the per-cycle action of an active channel whose continuing
\* conditions pass; returned is set by the early return of line 90
ResetOrFuse(s, in, ok) ==
    IF in.ev_reset
    THEN IF in.quality_sufficient
         THEN LET r == resetQuatStateYaw(Log(s, "reset to EV yaw"),
                                         s.aid.observation, s.aid.observation_variance)
              IN [r EXCEPT !.aid.time_last_fuse = imu_time_us, !.set_at = imu_time_us]
         ELSE [stopEvYawFusion(s) EXCEPT !.returned = TRUE]
    ELSE IF in.quality_sufficient
         THEN fuseYaw(s, s.aid.innovation, s.aid.observation_variance, ok)
         ELSE [s EXCEPT !.aid.innovation_rejected = TRUE]

\* mutant of FusionHealth: the fusion is taken to be failing in every cycle
FusionHealth_AlwaysFailing(s, in) ==
    LET h == [s EXCEPT !.health = TRUE, !.failing = TRUE] IN
    IF (h.nb > 0) /\ in.quality_sufficient
    THEN LET r == resetQuatStateYaw(Log(h, "EV yaw fusion failing, resetting"),
                                    h.aid.innovation, h.aid.observation_variance)
         IN [r EXCEPT !.aid.time_last_fuse = imu_time_us, !.set_at = imu_time_us,
                      !.nb = IF r.cs.in_air THEN @ - 1 ELSE @]
    ELSE IF h.start
    THEN stopEvYawFusion(Log(h, "stopping EV yaw fusion, starting conditions failing"))
    ELSE stopEvYawFusion(Log(h, "stopping EV yaw, fusion failing"))

\* mutant of FusionHealth: the budget is decremented on the ground as well
FusionHealth_DecOnGround(s, in) ==
    LET is_fusion_failing == isTimedOut(s.aid.time_last_fuse, params.no_aid_timeout_max)
        h == [s EXCEPT !.health = TRUE, !.failing = is_fusion_failing]
    IN
    IF ~is_fusion_failing THEN h
    ELSE IF (h.nb > 0) /\ in.quality_sufficient
    THEN LET r == resetQuatStateYaw(Log(h, "EV yaw fusion failing, resetting"),
                                    h.aid.innovation, h.aid.observation_variance)
         IN [r EXCEPT !.aid.time_last_fuse = imu_time_us, !.set_at = imu_time_us,
                      !.nb = @ - 1]
    ELSE IF h.start
    THEN stopEvYawFusion(Log(h, "stopping EV yaw fusion, starting conditions failing"))
    ELSE stopEvYawFusion(Log(h, "stopping EV yaw, fusion failing"))

\* mutant of FusionHealth: the forced reset does not look at the budget
FusionHealth_IgnoreBudget(s, in) ==
    LET is_fusion_failing == isTimedOut(s.aid.time_last_fuse, params.no_aid_timeout_max)
        h == [s EXCEPT !.health = TRUE, !.failing = is_fusion_failing]
    IN
    IF ~is_fusion_failing THEN h
    ELSE IF in.quality_sufficient
    THEN LET r == resetQuatStateYaw(Log(h, "EV yaw fusion failing, resetting"),
                                    h.aid.innovation, h.aid.observation_variance)
         IN [r EXCEPT !.aid.time_last_fuse = imu_time_us, !.set_at = imu_time_us,
                      !.nb = IF r.cs.in_air /\ @ > 0 THEN @ - 1 ELSE @]
    ELSE IF h.start
    THEN stopEvYawFusion(Log(h, "stopping EV yaw fusion, starting conditions failing"))
    ELSE stopEvYawFusion(Log(h, "stopping EV yaw, fusion failing"))

\* mutant of FusionHealth: the forced reset targets the observation
FusionHealth_ResetToObservation(s, in) ==
    LET is_fusion_failing == isTimedOut(s.aid.time_last_fuse, params.no_aid_timeout_max)
        h == [s EXCEPT !.health = TRUE, !.failing = is_fusion_failing]
    IN
    IF ~is_fusion_failing THEN h
    ELSE IF (h.nb > 0) /\ in.quality_sufficient
    THEN LET r == resetQuatStateYaw(Log(h, "EV yaw fusion failing, resetting"),
                                    h.aid.observation, h.aid.observation_variance)
         IN [r EXCEPT !.aid.time_last_fuse = imu_time_us, !.set_at = imu_time_us,
                      !.nb = IF r.cs.in_air THEN @ - 1 ELSE @]
    ELSE IF h.start
    THEN stopEvYawFusion(Log(h, "stopping EV yaw fusion, starting conditions failing"))
    ELSE stopEvYawFusion(Log(h, "stopping EV yaw, fusion failing"))

\* lines 100-127: fusion health
FusionHealth(s, in) ==
    LET is_fusion_failing == isTimedOut(s.aid.time_last_fuse, params.no_aid_timeout_max)
        h == [s EXCEPT !.health = TRUE, !.failing = is_fusion_failing]
    IN
    IF ~is_fusion_failing THEN h
    ELSE IF (h.nb > 0) /\ in.quality_sufficient
    THEN LET r == resetQuatStateYaw(Log(h, "EV yaw fusion failing, resetting"),
                                    h.aid.innovation, h.aid.observation_variance)
         IN [r EXCEPT !.aid.time_last_fuse = imu_time_us, !.set_at = imu_time_us,
                      !.nb = IF r.cs.in_air THEN @ - 1 ELSE @]
    ELSE IF h.start
    THEN \* line 117, the fault flag, is commented out in the source
         stopEvYawFusion(Log(h, "stopping EV yaw fusion, starting conditions failing"))
    ELSE stopEvYawFusion(Log(h, "stopping EV yaw, fusion failing"))

\* mutant of ActiveCycle: fusion_enabled is not set
ActiveCycle_NotEnabled(s, in, ok) ==
    IF s.cont
    THEN LET b == ResetOrFuse(s, in, ok) IN
         IF b.returned THEN b ELSE FusionHealth(b, in)
    ELSE stopEvYawFusion(Log(s, "stopping EV yaw fusion, continuing conditions failing"))

\* lines 73-133: the channel is active at entry
ActiveCycle(s, in, ok) ==
    LET a == [s EXCEPT !.aid.fusion_enabled = TRUE] IN
    IF a.cont
    THEN LET b == ResetOrFuse(a, in, ok) IN
         IF b.returned THEN b ELSE FusionHealth(b, in)
    ELSE stopEvYawFusion(Log(a, "stopping EV yaw fusion, continuing conditions failing"))

\* mutant of ActivateNED: time_last_fuse is left as it was
ActivateNED_NoTimestamp(s) ==
    LET a == IF s.cs.yaw_align
             THEN Log(s, "starting EV yaw fusion")
             ELSE [resetQuatStateYaw(Log(s, "starting EV yaw fusion, resetting state"),
                                     s.aid.observation, s.aid.observation_variance)
                      EXCEPT !.cs.yaw_align = TRUE]
    IN [Log(a, "starting_vision_yaw_fusion") EXCEPT !.cs.ev_yaw = TRUE]

\* lines 138-152: activation on an earth-frame sample
ActivateNED(s) ==
    LET a == IF s.cs.yaw_align
             THEN Log(s, "starting EV yaw fusion")
             ELSE [resetQuatStateYaw(Log(s, "starting EV yaw fusion, resetting state"),
                                     s.aid.observation, s.aid.observation_variance)
                      EXCEPT !.cs.yaw_align = TRUE]
    IN [Log(a, "starting_vision_yaw_fusion")
           EXCEPT !.aid.time_last_fuse = imu_time_us, !.set_at = imu_time_us,
                  !.cs.ev_yaw = TRUE]

\* mutants of ActivateFRD: the GPS fusion is left running; the magnetometer
\* fusion is left running; the yaw alignment flag is left as it was
ActivateFRD_KeepGps(s) ==
    LET a == stopGpsYawFusion(stopMagFusion(s))
        b == resetQuatStateYaw(Log(a, "starting EV yaw fusion, resetting state"),
                               a.aid.observation, a.aid.observation_variance)
    IN [Log(b, "starting_vision_yaw_fusion")
           EXCEPT !.aid.time_last_fuse = imu_time_us, !.set_at = imu_time_us,
                  !.cs.yaw_align = FALSE, !.cs.ev_yaw = TRUE]

ActivateFRD_KeepMag(s) ==
    LET a == stopGpsFusion(stopGpsYawFusion(s))
        b == resetQuatStateYaw(Log(a, "starting EV yaw fusion, resetting state"),
                               a.aid.observation, a.aid.observation_variance)
    IN [Log(b, "starting_vision_yaw_fusion")
           EXCEPT !.aid.time_last_fuse = imu_time_us, !.set_at = imu_time_us,
                  !.cs.yaw_align = FALSE, !.cs.ev_yaw = TRUE]

ActivateFRD_KeepAlign(s) ==
    LET a == stopGpsFusion(stopGpsYawFusion(stopMagFusion(s)))
        b == resetQuatStateYaw(Log(a, "starting EV yaw fusion, resetting state"),
                               a.aid.observation, a.aid.observation_variance)
    IN [Log(b, "starting_vision_yaw_fusion")
           EXCEPT !.aid.time_last_fuse = imu_time_us, !.set_at = imu_time_us,
                  !.cs.ev_yaw = TRUE]

\* lines 154-168: activation on a body-frame sample
ActivateFRD(s) ==
    LET a == stopGpsFusion(stopGpsYawFusion(stopMagFusion(s)))
        b == resetQuatStateYaw(Log(a, "starting EV yaw fusion, resetting state"),
                               a.aid.observation, a.aid.observation_variance)
    IN [Log(b, "starting_vision_yaw_fusion")
           EXCEPT !.aid.time_last_fuse = imu_time_us, !.set_at = imu_time_us,
                  !.cs.yaw_align = FALSE, !.cs.ev_yaw = TRUE]

\* mutant of RestoreBudget: an activation leaves the budget as it was
RestoreBudget_Keep(s) == s

\* lines 171-173
RestoreBudget(s) ==
    IF s.cs.ev_yaw THEN [s EXCEPT !.nb = NbResets] ELSE s

\* mutant of InactiveCycle: the channel starts on the continuing conditions
InactiveCycle_ContinuingOnly(s, in) ==
    IF s.cont
    THEN RestoreBudget(
           IF in.ev_sample.pos_frame = LOCAL_FRAME_NED THEN ActivateNED(s)
           ELSE IF in.ev_sample.pos_frame = LOCAL_FRAME_FRD THEN ActivateFRD(s)
           ELSE s)
    ELSE s

\* lines 135-175: the channel is inactive at entry
InactiveCycle(s, in) ==
    IF s.start
    THEN RestoreBudget(
           IF in.ev_sample.pos_frame = LOCAL_FRAME_NED THEN ActivateNED(s)
           ELSE IF in.ev_sample.pos_frame = LOCAL_FRAME_FRD THEN ActivateFRD(s)
           ELSE s)
    ELSE s

\* lines 41-176
controlEvYawFusion(s, in, ok) ==
    LET g == ConditionEvaluator(ObservationBuilder(s, in), in) IN
    IF g.cs.ev_yaw THEN ActiveCycle(g, in, ok) ELSE InactiveCycle(g, in)

\* ------------------------------------------------------------ the system
\* cyc records the last call of controlEvYawFusion: its arguments, the state
\* at entry, the locals and what it invoked; pc is "done" right after a call
NoCycle == [ran |-> FALSE]

\* track counts the forced (timeout-recovery) yaw resets since the last
\* activation, all of them and those made in air, up to one more than the
\* budget, and tells whether the last cycle stopped the channel by escalation
NoTrack == [forced |-> 0, forced_air |-> 0, escalated |-> FALSE]

UpTo(n, max) == IF n < max THEN n + 1 ELSE max

Logged(events, msg) == \E i \in DOMAIN events : events[i] = msg

\* mutant of UpdatePreviousSampleCache: a cycle that returns early keeps the
\* cache
UpdatePreviousSampleCache_SkipOnReturn(in, r) ==
    IF r.returned
    THEN [ev_sample_prev |-> ev_sample_prev, yaw_pred_prev |-> yaw_pred_prev]
    ELSE [ev_sample_prev |-> [quat |-> in.ev_sample.quat], yaw_pred_prev |-> r.yaw]

\* the caller records the sample and the predicted yaw for the next cycle,
\* whatever the outcome of the cycle
UpdatePreviousSampleCache(in, r) ==
    [ev_sample_prev |-> [quat |-> in.ev_sample.quat], yaw_pred_prev |-> r.yaw]

EmptyStatus ==
    [timestamp_sample |-> 0, observation |-> 0, observation_variance |-> 0,
     innovation |-> 0, innovation_rejected |-> FALSE, fusion_enabled |-> FALSE,
     fused |-> FALSE, time_last_fuse |-> 0]

Init ==
    /\ control_status = [tilt_align |-> FALSE, yaw_align |-> FALSE, gps |-> FALSE,
                         gps_yaw |-> FALSE, mag_hdg |-> FALSE, in_air |-> FALSE,
                         ev_yaw |-> FALSE, ev_yaw_fault |-> FALSE]
    /\ params \in [ev_ctrl_yaw : BOOLEAN, ev_att_noise : EvAttNoises,
                   no_aid_timeout_max : NoAidTimeouts]
    /\ inhibit_ev_yaw_use = FALSE
    /\ nb_ev_yaw_reset_available = 0
    /\ aid_src_ev_yaw = EmptyStatus
    /\ yaw = 0
    /\ yaw_pred_prev = 0
    /\ ev_sample_prev = [quat |-> 0]
    /\ imu_time_us = StartUs
    /\ last_set = -1
    /\ track = NoTrack
    /\ cyc = NoCycle
    /\ pc = "pre"

\* one call of controlEvYawFusion by the estimator, once per update
Step(yaws, variances, starts) ==
    /\ pc = "pre"
    /\ \E frame \in PositionFrame, q \in yaws, v \in variances,
          st \in starts, er \in BOOLEAN, qs \in BOOLEAN, ok \in BOOLEAN :
        LET in == [ev_sample |-> [time_us |-> imu_time_us - SampleLagUs, quat |-> q,
                                  orientation_var |-> v, pos_frame |-> frame],
                   starting_conditions_passing |-> st,
                   ev_reset |-> er,
                   quality_sufficient |-> qs]
            s0 == [cs |-> control_status, nb |-> nb_ev_yaw_reset_available,
                   aid |-> aid_src_ev_yaw, yaw |-> yaw, calls |-> <<>>,
                   events |-> <<>>, set_at |-> last_set,
                   cont |-> FALSE, start |-> FALSE, returned |-> FALSE,
                   health |-> FALSE, failing |-> FALSE]
            r == controlEvYawFusion(s0, in, ok)
            cache == UpdatePreviousSampleCache(in, r)
            forced == Logged(r.events, "EV yaw fusion failing, resetting")
        IN  /\ control_status' = r.cs
            /\ nb_ev_yaw_reset_available' = r.nb
            /\ aid_src_ev_yaw' = r.aid
            /\ yaw' = r.yaw
            /\ last_set' = r.set_at
            /\ yaw_pred_prev' = cache.yaw_pred_prev
            /\ ev_sample_prev' = cache.ev_sample_prev
            /\ track' =
                 IF ~control_status.ev_yaw /\ r.cs.ev_yaw THEN NoTrack
                 ELSE [forced |-> IF forced THEN UpTo(track.forced, NbResets + 1)
                                  ELSE track.forced,
                       forced_air |-> IF forced /\ control_status.in_air
                                      THEN UpTo(track.forced_air, NbResets + 1)
                                      ELSE track.forced_air,
                       escalated |-> Logged(r.events,
                           "stopping EV yaw fusion, starting conditions failing")]
            /\ cyc' = [ran |-> TRUE, in |-> in, now |-> imu_time_us,
                       cs |-> control_status, nb |-> nb_ev_yaw_reset_available,
                       aid |-> aid_src_ev_yaw, yaw |-> yaw, set_at |-> last_set,
                       cont |-> r.cont, start |-> r.start, returned |-> r.returned,
                       health |-> r.health, failing |-> r.failing,
                       calls |-> r.calls, events |-> r.events,
                       built |-> ConditionEvaluator(ObservationBuilder(s0, in), in).aid,
                       yaw_pred_prev |-> yaw_pred_prev,
                       ev_sample_prev |-> ev_sample_prev, track |-> track]
    /\ pc' = "done"
    /\ UNCHANGED <<params, inhibit_ev_yaw_use, imu_time_us>>

Cycle == Step(SampleYaws, SampleVars, BOOLEAN)

\* the same call, every sample carrying a finite yaw
CycleFinite == Step(SampleYaws \ {NaN}, SampleVars, BOOLEAN)

\* the next estimator update: the delayed IMU time advances
Tick(steps, max) ==
    /\ \E n \in steps :
        /\ imu_time_us + n * TickUs <= StartUs + max * TickUs
        /\ imu_time_us' = imu_time_us + n * TickUs
    /\ pc' = "pre"
    /\ cyc' = NoCycle
    /\ UNCHANGED <<control_status, params, inhibit_ev_yaw_use,
                   nb_ev_yaw_reset_available, aid_src_ev_yaw, yaw, yaw_pred_prev,
                   ev_sample_prev, last_set, track>>

TickShort == Tick(1..2, MaxTicks)

TickLong == Tick(2..2, MaxTicksLong)

\* the rest of the estimator, before the call of an update
Between(cs) ==
    /\ pc = "pre"
    /\ control_status' = cs
    /\ UNCHANGED <<params, inhibit_ev_yaw_use, nb_ev_yaw_reset_available,
                   aid_src_ev_yaw, yaw, yaw_pred_prev, ev_sample_prev, imu_time_us,
                   last_set, track, cyc, pc>>

TiltAlign ==
    /\ ~control_status.tilt_align
    /\ Between([control_status EXCEPT !.tilt_align = TRUE])

YawAlignOther ==
    /\ ~control_status.yaw_align
    /\ control_status.mag_hdg \/ control_status.gps_yaw
    /\ Between([control_status EXCEPT !.yaw_align = TRUE])

InAir == Between([control_status EXCEPT !.in_air = ~@])

MagControl == Between([control_status EXCEPT !.mag_hdg = ~@])

GpsYawControl == Between([control_status EXCEPT !.gps_yaw = ~@])

GpsControl == Between([control_status EXCEPT !.gps = ~@])

InhibitEvYaw ==
    /\ pc = "pre"
    /\ inhibit_ev_yaw_use' = ~inhibit_ev_yaw_use
    /\ UNCHANGED <<control_status, params, nb_ev_yaw_reset_available, aid_src_ev_yaw,
                   yaw, yaw_pred_prev, ev_sample_prev, imu_time_us, last_set, track, cyc, pc>>

\* activation, exclusivity and the per-cycle actions: every flag of the other
\* channels moves, over a few updates
Next ==
    \/ Cycle
    \/ TickShort
    \/ TiltAlign
    \/ YawAlignOther
    \/ MagControl
    \/ GpsYawControl
    \/ GpsControl
    \/ InhibitEvYaw

InitShort ==
    /\ Init
    /\ params.no_aid_timeout_max = TickUs

Spec == InitShort /\ [][Next]_vars

\* fusion health and the reset budget: many updates, the vehicle takes off and
\* lands, the other heading channels stay off
NextLong ==
    \/ CycleFinite
    \/ TickLong
    \/ TiltAlign
    \/ InAir

SpecLong == Init /\ [][NextLong]_vars

\* the numeric paths: one call, entered from any heading, any previous-sample
\* cache and any sample, with the channel inactive or active since StartUs
Angles == (1 - PiUnits)..PiUnits
NumYaws == Angles \cup {NaN}
NumVars == {0, 4, NaN}
NumNoises == {0, 3}

InitNum ==
    /\ control_status \in [tilt_align : {TRUE}, yaw_align : BOOLEAN, gps : BOOLEAN,
                            gps_yaw : {FALSE}, mag_hdg : {FALSE}, in_air : {FALSE},
                            ev_yaw : BOOLEAN, ev_yaw_fault : {FALSE}]
    /\ params \in [ev_ctrl_yaw : {TRUE}, ev_att_noise : NumNoises,
                   no_aid_timeout_max : {TickUs}]
    /\ inhibit_ev_yaw_use = FALSE
    /\ yaw \in Angles
    /\ yaw_pred_prev \in Angles
    /\ ev_sample_prev \in [quat : {0, PiUnits}]
    /\ nb_ev_yaw_reset_available = IF control_status.ev_yaw THEN NbResets ELSE 0
    /\ aid_src_ev_yaw =
         IF control_status.ev_yaw
         THEN [EmptyStatus EXCEPT
                  !.timestamp_sample = StartUs - SampleLagUs,
                  !.observation = yaw,
                  !.observation_variance = fmax2(params.ev_att_noise, MinVar),
                  !.time_last_fuse = StartUs]
         ELSE EmptyStatus
    /\ imu_time_us = StartUs + 2 * TickUs
    /\ last_set = IF control_status.ev_yaw THEN StartUs ELSE -1
    /\ track = NoTrack
    /\ cyc = NoCycle
    /\ pc = "pre"

CycleNum == Step(NumYaws, NumVars, {TRUE})

NextNum == CycleNum

SpecNum == InitNum /\ [][NextNum]_vars

TypeOK ==
    /\ nb_ev_yaw_reset_available \in 0..NbResets
    /\ yaw \in (1 - PiUnits)..PiUnits

\* ------------------------------------------------------------ properties
\* what the last cycle was
Ran == pc = "done" /\ cyc.ran
ActiveAtEntry == Ran /\ cyc.cs.ev_yaw
Activated == Ran /\ ~cyc.cs.ev_yaw /\ control_status.ev_yaw
Frame == cyc.in.ev_sample.pos_frame
CallsOf(op) == SelectSeq(cyc.calls, LAMBDA c : c[1] = op)

\* C1: a cycle that activates the channel on a body-frame (FRD) sample ends
\* with the magnetometer yaw, GPS yaw and GPS fusion flags all false.
C1_BodyFrameExclusivity ==
    (Activated /\ Frame = LOCAL_FRAME_FRD) =>
        /\ ~control_status.mag_hdg
        /\ ~control_status.gps_yaw
        /\ ~control_status.gps

\* a body-frame activation that found all three competing channels running
C1_Witness ==
    /\ Activated /\ Frame = LOCAL_FRAME_FRD
    /\ cyc.cs.mag_hdg /\ cyc.cs.gps_yaw /\ cyc.cs.gps
    /\ ~control_status.mag_hdg /\ ~control_status.gps_yaw /\ ~control_status.gps

\* C2 as stated: whatever the frame tag, a cycle that activates EV yaw ends
\* with neither the magnetometer yaw nor the GPS yaw flag true.
C2_AtMostOneHeading ==
    Activated => ~(control_status.ev_yaw
                   /\ (control_status.mag_hdg \/ control_status.gps_yaw))

\* C2: at the end of a cycle that activates EV yaw, the magnetometer yaw or GPS
\* yaw flag is true only if the activating sample was earth-frame (NED) and the
\* flag was true at entry: an earth-frame activation stops no competing channel,
\* a body-frame activation stops them all.
C2_HeadingExclusivityByFrame ==
    Activated =>
        /\ control_status.mag_hdg => (Frame = LOCAL_FRAME_NED /\ cyc.cs.mag_hdg)
        /\ control_status.gps_yaw => (Frame = LOCAL_FRAME_NED /\ cyc.cs.gps_yaw)
        /\ Frame = LOCAL_FRAME_NED =>
              /\ control_status.mag_hdg = cyc.cs.mag_hdg
              /\ control_status.gps_yaw = cyc.cs.gps_yaw
              /\ control_status.gps = cyc.cs.gps
              /\ CallsOf("stopMagFusion") = <<>>
              /\ CallsOf("stopGpsYawFusion") = <<>>
              /\ CallsOf("stopGpsFusion") = <<>>

\* an earth-frame activation that leaves magnetometer and GPS yaw running
C2_Witness ==
    /\ Activated /\ Frame = LOCAL_FRAME_NED
    /\ control_status.ev_yaw /\ control_status.mag_hdg /\ control_status.gps_yaw

\* C3: over a cycle the reset budget increases only when the channel is newly
\* activated, and is then exactly 5; it is not decremented while the vehicle
\* is on the ground; otherwise it changes by 0 or -1; it stays within 0..5.
C3_BudgetMonotonicity ==
    /\ nb_ev_yaw_reset_available \in 0..NbResets
    /\ Ran =>
        /\ Activated => nb_ev_yaw_reset_available = NbResets
        /\ nb_ev_yaw_reset_available > cyc.nb => Activated
        /\ ~cyc.cs.in_air => nb_ev_yaw_reset_available >= cyc.nb
        /\ ~Activated => nb_ev_yaw_reset_available \in {cyc.nb, cyc.nb - 1}

\* the airborne forced reset that uses up the budget
C3_Witness ==
    /\ ActiveAtEntry /\ cyc.cs.in_air
    /\ cyc.nb = 1 /\ nb_ev_yaw_reset_available = 0
    /\ CallsOf("resetQuatStateYaw") # <<>>

\* the case of "no spurious reset": active, continuing conditions pass, no
\* discontinuity, quality sufficient
FuseCase ==
    /\ ActiveAtEntry /\ cyc.cont
    /\ ~cyc.in.ev_reset /\ cyc.in.quality_sufficient

\* the fuse call of the cycle did not succeed and time_last_fuse is older than
\* the maximum timeout
StillTimedOut ==
    /\ ~aid_src_ev_yaw.fused
    /\ cyc.aid.time_last_fuse + params.no_aid_timeout_max < cyc.now

\* C4 as stated: in the fuse case the yaw reset primitive is never invoked,
\* whatever the elapsed time and the budget.
C4_NoSpuriousReset ==
    FuseCase => CallsOf("resetQuatStateYaw") = <<>>

\* C4: in the fuse case fuse is called, and the yaw reset primitive is invoked
\* (once) exactly when the fuse call did not succeed, time_last_fuse is older
\* than the maximum timeout and the reset budget is positive.
C4_ResetOnlyOnTimeout ==
    FuseCase =>
        /\ Len(CallsOf("fuseYaw")) = 1
        /\ Len(CallsOf("resetQuatStateYaw")) =
              IF StillTimedOut /\ cyc.nb > 0 THEN 1 ELSE 0

\* the fuse case with a forced reset after the fuse call
C4_Witness ==
    /\ FuseCase /\ StillTimedOut /\ cyc.nb > 0
    /\ Len(CallsOf("fuseYaw")) = 1
    /\ Len(CallsOf("resetQuatStateYaw")) = 1

\* C5: an active channel whose fusion timed out with no retry available ends
\* inactive, and a fault is declared exactly when starting conditions pass.
C5_FaultDeclaredOnEscalation ==
    (/\ ActiveAtEntry /\ cyc.health /\ cyc.failing
     /\ (cyc.nb = 0 \/ ~cyc.in.quality_sufficient)) =>
        /\ ~control_status.ev_yaw
        /\ control_status.ev_yaw_fault = cyc.start

\* C6: active, continuing conditions pass, discontinuity signaled, quality
\* insufficient: the cycle ends inactive with the status record cleared, no
\* fault, no fuse, no yaw reset, no fusion-health evaluation, budget unchanged.
ResetUnusableCase ==
    /\ ActiveAtEntry /\ cyc.cont
    /\ cyc.in.ev_reset /\ ~cyc.in.quality_sufficient

C6_StopOnUnusableReset ==
    ResetUnusableCase =>
        /\ ~control_status.ev_yaw
        /\ aid_src_ev_yaw.timestamp_sample = 0
        /\ aid_src_ev_yaw.observation = 0
        /\ aid_src_ev_yaw.observation_variance = 0
        /\ aid_src_ev_yaw.innovation = 0
        /\ ~aid_src_ev_yaw.innovation_rejected
        /\ ~aid_src_ev_yaw.fusion_enabled
        /\ ~control_status.ev_yaw_fault
        /\ CallsOf("fuseYaw") = <<>>
        /\ CallsOf("resetQuatStateYaw") = <<>>
        /\ ~cyc.health
        /\ nb_ev_yaw_reset_available = cyc.nb
        /\ yaw = cyc.yaw

\* such a cycle, on a channel whose last fuse is older than the timeout
C6_Witness ==
    /\ ResetUnusableCase
    /\ cyc.aid.time_last_fuse + params.no_aid_timeout_max < cyc.now
    /\ ~control_status.ev_yaw
    /\ aid_src_ev_yaw.timestamp_sample = 0

\* observation and observation variance of the last cycle's sample
Observation == cyc.in.ev_sample.quat
ObservationVariance ==
    fmax3(cyc.in.ev_sample.orientation_var, params.ev_att_noise, MinVar)

\* Scenario A: inactive, earth-frame sample, starting conditions pass, yaw
\* alignment already established
EarthFrameStartCase ==
    /\ Ran /\ ~cyc.cs.ev_yaw /\ cyc.start
    /\ Frame = LOCAL_FRAME_NED
    /\ cyc.cs.yaw_align

\* C7 as stated: Scenario A ends active with time_last_fuse equal to the
\* timestamp of the sample, no yaw reset, and the alignment flag unchanged.
C7_StartStampsSampleTime ==
    EarthFrameStartCase =>
        /\ control_status.ev_yaw
        /\ aid_src_ev_yaw.time_last_fuse = cyc.in.ev_sample.time_us
        /\ CallsOf("resetQuatStateYaw") = <<>>
        /\ control_status.yaw_align = cyc.cs.yaw_align

\* C7: Scenario A ends active with time_last_fuse equal to the delayed IMU time
\* of the cycle (the current estimator time, not the sample's timestamp), no
\* yaw reset, and the alignment flag unchanged.
C7_StartStampsImuTime ==
    EarthFrameStartCase =>
        /\ control_status.ev_yaw
        /\ aid_src_ev_yaw.time_last_fuse = cyc.now
        /\ aid_src_ev_yaw.timestamp_sample = cyc.in.ev_sample.time_us
        /\ CallsOf("resetQuatStateYaw") = <<>>
        /\ yaw = cyc.yaw
        /\ control_status.yaw_align = cyc.cs.yaw_align

\* Scenario A on a channel that had fused before
C7_Witness ==
    /\ EarthFrameStartCase
    /\ control_status.ev_yaw
    /\ cyc.aid.time_last_fuse > 0
    /\ aid_src_ev_yaw.time_last_fuse = cyc.now
    /\ cyc.in.ev_sample.time_us # cyc.now

\* C8: right after an activation the yaw alignment flag is true exactly when
\* the sample was earth-frame; an earth-frame activation resets yaw to the
\* observation exactly when alignment was not established; a body-frame one
\* always does and clears alignment; the budget is 5 in both cases.
C8_AlignmentByFrame ==
    Activated =>
        LET resets == CallsOf("resetQuatStateYaw")
            toObservation == <<Call("resetQuatStateYaw", Observation, ObservationVariance)>>
        IN  /\ control_status.yaw_align <=> (Frame = LOCAL_FRAME_NED)
            /\ nb_ev_yaw_reset_available = NbResets
            /\ Frame = LOCAL_FRAME_NED =>
                  resets = IF cyc.cs.yaw_align THEN <<>> ELSE toObservation
            /\ Frame # LOCAL_FRAME_NED =>
                  /\ Frame = LOCAL_FRAME_FRD
                  /\ resets = toObservation
            /\ yaw = IF resets = <<>> THEN cyc.yaw ELSE Observation

\* a body-frame activation of an estimator whose yaw was aligned
C8_Witness ==
    /\ Activated /\ Frame = LOCAL_FRAME_FRD
    /\ cyc.cs.yaw_align /\ ~control_status.yaw_align
    /\ cyc.yaw # Observation /\ yaw = Observation
    /\ cyc.nb < NbResets /\ nb_ev_yaw_reset_available = NbResets

\* C9: fuse is invoked exactly once, with the innovation and the observation
\* variance of the cycle, when the channel is active, continuing conditions
\* pass, no discontinuity is signaled and quality is sufficient; in every other
\* cycle it is not invoked.
C9_FuseExactlyOnce ==
    Ran =>
        CallsOf("fuseYaw") =
            IF FuseCase
            THEN <<Call("fuseYaw", wrap_pi(fsub(cyc.yaw, Observation)),
                        ObservationVariance)>>
            ELSE <<>>

\* a fuse call whose innovation differs from the observation
C9_Witness ==
    /\ FuseCase
    /\ Len(CallsOf("fuseYaw")) = 1
    /\ CallsOf("fuseYaw")[1][2] # Observation
    /\ CallsOf("fuseYaw")[1][2] = aid_src_ev_yaw.innovation

\* C10: starting conditions pass only if continuing conditions pass and more
\* than 1 s went by since time_last_fuse was last set by a fuse, reset or
\* activation; no activation happens within that interval, also after a stop.
CooldownElapsed == cyc.set_at >= 0 => cyc.set_at + CooldownUs < cyc.now

C10_ReactivationCooldown ==
    Ran =>
        /\ cyc.start => (cyc.cont /\ cyc.in.starting_conditions_passing
                         /\ CooldownElapsed)
        /\ Activated => CooldownElapsed

\* a re-activation of a channel that was stopped after having fused
C10_Witness ==
    /\ Activated
    /\ cyc.set_at >= 0
    /\ cyc.set_at + CooldownUs < cyc.now

\* C11: time_last_fuse never decreases over a cycle, the per-cycle status reset
\* and the stops of the channel included, and never lies in the future.
C11_TimeLastFuseMonotonic ==
    /\ aid_src_ev_yaw.time_last_fuse <= imu_time_us
    /\ Ran => aid_src_ev_yaw.time_last_fuse >= cyc.aid.time_last_fuse

\* a cycle that stops a channel that had fused, and keeps its time_last_fuse
C11_Witness ==
    /\ ActiveAtEntry /\ ~control_status.ev_yaw
    /\ cyc.aid.time_last_fuse > 0
    /\ aid_src_ev_yaw.time_last_fuse = cyc.aid.time_last_fuse
    /\ aid_src_ev_yaw.timestamp_sample = 0

\* C12 as stated: at the end of every cycle fusion_enabled equals the
\* activation flag, the activating cycle included.
C12_EnabledEqualsActive ==
    Ran => (aid_src_ev_yaw.fusion_enabled <=> control_status.ev_yaw)

\* C12: at the end of every cycle fusion_enabled is true exactly when the
\* channel was active at entry and is still active; in the cycle that
\* activates the channel it is still false.
C12_EnabledWhenActiveAtEntry ==
    Ran =>
        /\ aid_src_ev_yaw.fusion_enabled <=> (cyc.cs.ev_yaw /\ control_status.ev_yaw)
        /\ Activated => ~aid_src_ev_yaw.fusion_enabled

\* a cycle that activates the channel and leaves fusion_enabled false
C12_Witness ==
    /\ Activated
    /\ ~aid_src_ev_yaw.fusion_enabled

\* the largest of the finite values among the reported variance, the
\* configured noise and the fixed minimum
VarianceBound ==
    LET S == ({cyc.in.ev_sample.orientation_var} \ {NaN})
             \cup {params.ev_att_noise, MinVar}
    IN CHOOSE m \in S : \A x \in S : m >= x

VarianceArgs ==
    {cyc.calls[i][3] : i \in {j \in DOMAIN cyc.calls :
                               cyc.calls[j][1] \in {"fuseYaw", "resetQuatStateYaw"}}}

\* C13: after the observation builder the observation variance is finite, at
\* least the reported variance (when finite), the configured noise and the
\* fixed minimum, hence positive; so is every variance handed to fuseYaw or
\* to resetQuatStateYaw in the cycle.
C13_VarianceFloor ==
    Ran =>
        \A v \in {cyc.built.observation_variance} \cup VarianceArgs :
            /\ v # NaN
            /\ v >= VarianceBound
            /\ v > 0

\* a sample reporting variance 0 with the configured noise 0: the fixed
\* minimum is the floor, and it is the variance handed to the fusion
C13_Witness ==
    /\ Ran
    /\ cyc.in.ev_sample.orientation_var = 0 /\ params.ev_att_noise = 0
    /\ cyc.built.observation_variance = MinVar
    /\ CallsOf("fuseYaw") # <<>>
    /\ VarianceArgs = {MinVar}

\* the exclusivity veto held in the last cycle
VetoCase == Ran /\ cyc.cs.gps /\ cyc.cs.yaw_align /\ Frame # LOCAL_FRAME_NED

\* C14: for finite headings the innovation of the status record lies in
\* (-pi, pi], on the direct path and on the exclusivity-veto path, after the
\* condition evaluator and at the end of the cycle.
C14_InnovationWrapped ==
    (Ran /\ Observation # NaN) =>
        /\ cyc.built.innovation \in Angles
        /\ aid_src_ev_yaw.innovation \in Angles
        /\ ~VetoCase => cyc.built.innovation - (cyc.yaw - Observation)
                            \in {-2 * PiUnits, 0, 2 * PiUnits}

\* the veto path with the two deltas pi apart the other way round: the
\* difference -pi is wrapped to pi
C14_Witness ==
    /\ VetoCase /\ Observation # NaN
    /\ wrap_pi(cyc.yaw - cyc.yaw_pred_prev)
         - wrap_pi(Observation - cyc.ev_sample_prev.quat) = -PiUnits
    /\ cyc.built.innovation = PiUnits

\* the continuing conditions, read from the state at entry and the sample
ContinuingHeld ==
    /\ params.ev_ctrl_yaw
    /\ cyc.cs.tilt_align
    /\ ~inhibit_ev_yaw_use
    /\ Observation # NaN
    /\ cyc.built.observation_variance # NaN
    /\ ~(cyc.cs.gps /\ cyc.cs.yaw_align /\ Frame # LOCAL_FRAME_NED)

\* C15: a cycle that ends with the channel active had every continuing
\* condition hold; a cycle in which one of them fails ends inactive, without
\* a call of fuseYaw or resetQuatStateYaw and with the budget unchanged.
C15_ActiveOnlyWhileContinuing ==
    Ran =>
        /\ control_status.ev_yaw => ContinuingHeld
        /\ ~ContinuingHeld =>
             /\ ~control_status.ev_yaw
             /\ CallsOf("fuseYaw") = <<>>
             /\ CallsOf("resetQuatStateYaw") = <<>>
             /\ nb_ev_yaw_reset_available = cyc.nb

\* an active channel stopped by the exclusivity veto alone, on a sample that
\* would otherwise have been fused
C15_Witness ==
    /\ ActiveAtEntry /\ VetoCase
    /\ params.ev_ctrl_yaw /\ cyc.cs.tilt_align /\ ~inhibit_ev_yaw_use
    /\ Observation # NaN
    /\ ~cyc.in.ev_reset /\ cyc.in.quality_sufficient
    /\ ~control_status.ev_yaw

\* the starting conditions, read from the state at entry and the arguments
StartingHeld ==
    /\ cyc.in.starting_conditions_passing
    /\ ContinuingHeld
    /\ cyc.aid.time_last_fuse + CooldownUs < cyc.now

\* C16: a cycle entered inactive whose starting conditions fail changes no
\* control state: the channel stays inactive, every control flag, the budget,
\* time_last_fuse and the yaw estimate are unchanged, and nothing is invoked.
C16_InactiveNoOp ==
    (Ran /\ ~cyc.cs.ev_yaw /\ ~StartingHeld) =>
        /\ ~control_status.ev_yaw
        /\ control_status = cyc.cs
        /\ nb_ev_yaw_reset_available = cyc.nb
        /\ aid_src_ev_yaw.time_last_fuse = cyc.aid.time_last_fuse
        /\ yaw = cyc.yaw
        /\ cyc.calls = <<>>

\* an inactive channel held back by the cooldown alone, next to running
\* magnetometer and GPS channels, with a budget and a fuse time to keep
C16_Witness ==
    /\ Ran /\ ~cyc.cs.ev_yaw
    /\ cyc.in.starting_conditions_passing /\ ContinuingHeld /\ ~StartingHeld
    /\ Frame = LOCAL_FRAME_FRD
    /\ cyc.cs.mag_hdg /\ cyc.cs.gps
    /\ cyc.nb > 0 /\ cyc.aid.time_last_fuse > 0
    /\ control_status = cyc.cs

\* the last cycle made a forced (timeout-recovery) yaw reset
ForcedReset == Ran /\ Logged(cyc.events, "EV yaw fusion failing, resetting")

\* an active channel with an empty budget meets a fusion timeout
ExhaustedCase == ActiveAtEntry /\ cyc.nb = 0 /\ cyc.health /\ cyc.failing

\* C17 as stated: at most 5 forced resets between an activation and the next
\* stop; with the budget at 0 a fusion timeout only stops the channel.
C17_AtMostFiveForcedResets ==
    /\ track.forced <= NbResets
    /\ (ActiveAtEntry /\ cyc.nb = 0) => ~ForcedReset
    /\ ExhaustedCase => ~control_status.ev_yaw

\* C17: between an activation and the next stop at most 5 forced resets are
\* made in air, each taking one unit of the budget; a forced reset on the
\* ground takes none; with the budget at 0 a fusion timeout only stops the
\* channel.
C17_AtMostFiveAirborneForcedResets ==
    /\ track.forced_air <= NbResets
    /\ control_status.ev_yaw =>
           track.forced_air = NbResets - nb_ev_yaw_reset_available
    /\ (ForcedReset /\ ~cyc.cs.in_air) => nb_ev_yaw_reset_available = cyc.nb
    /\ (ActiveAtEntry /\ cyc.nb = 0) => ~ForcedReset
    /\ ExhaustedCase =>
           /\ ~control_status.ev_yaw
           /\ CallsOf("resetQuatStateYaw") = <<>>

\* one activation with six forced resets, five of them in air: the budget is
\* empty, and the next fusion timeout stops the channel
C17_Witness ==
    /\ ExhaustedCase
    /\ cyc.in.quality_sufficient
    /\ cyc.track.forced = NbResets + 1
    /\ cyc.track.forced_air = NbResets
    /\ ~control_status.ev_yaw

\* the target angles of the yaw resets of the last cycle
ResetTargets == [i \in DOMAIN CallsOf("resetQuatStateYaw") |->
                    CallsOf("resetQuatStateYaw")[i][2]]

\* the last cycle made the yaw reset of the discontinuity branch
DiscontinuityReset == Ran /\ Logged(cyc.events, "reset to EV yaw")

\* C18: the yaw reset of the timeout-recovery branch targets the innovation
\* of the cycle, the wrapped difference of the yaw estimate and the
\* observation; the yaw reset of the discontinuity branch and that of an
\* activation target the observation; a cycle makes at most one of them.
C18_ResetTargets ==
    Ran =>
        /\ Len(ResetTargets) <= 1
        /\ ForcedReset =>
               ResetTargets = <<wrap_pi(cyc.yaw - Observation)>>
        /\ DiscontinuityReset => ResetTargets = <<Observation>>
        /\ Activated => ResetTargets \in {<<>>, <<Observation>>}
        /\ ResetTargets # <<>> => (ForcedReset \/ DiscontinuityReset \/ Activated)

\* a forced reset whose target, the innovation, differs from the observation:
\* the yaw estimate is set to the innovation
C18_Witness ==
    /\ ForcedReset
    /\ ResetTargets = <<wrap_pi(cyc.yaw - Observation)>>
    /\ ResetTargets[1] # Observation
    /\ yaw = ResetTargets[1]

AfterEscalation == Ran /\ cyc.track.escalated

\* C20: the cycle that follows an escalation stop, called with the starting
\* and continuing conditions holding and a NED or FRD sample, activates the
\* channel again with the budget back at 5; the escalation cycle itself ends
\* inactive, entered active with the timeout and the starting conditions.
C20_ReactivationAfterEscalation ==
    /\ (Ran /\ track.escalated) =>
           /\ ActiveAtEntry /\ cyc.failing /\ StartingHeld
           /\ ~control_status.ev_yaw
    /\ (/\ AfterEscalation
        /\ cyc.in.starting_conditions_passing /\ ContinuingHeld
        /\ Frame \in {LOCAL_FRAME_NED, LOCAL_FRAME_FRD}) =>
           /\ Activated
           /\ nb_ev_yaw_reset_available = NbResets
           /\ track = NoTrack

\* a channel that used part of its budget on forced resets, was stopped by
\* escalation, and is active again one cycle later with the whole budget
C20_Witness ==
    /\ AfterEscalation /\ Activated
    /\ cyc.track.forced_air >= 1
    /\ cyc.nb < NbResets
    /\ nb_ev_yaw_reset_available = NbResets
====
